---------------------------- MODULE Spec2Model ----------------------------
(***************************************************************************)
(* Model of app.py, the attendance consolidator: the identifier (RUT)      *)
(* normaliser, the sheet transformer process_sheet, the per-file reader    *)
(* process_excel_bytes and the orchestration and consolidation of run_app. *)
(*                                                                         *)
(* A Python str is modelled by the sequence of its characters, written     *)
(* Chars("12-9") = <<"1", "2", "-", "9">>.  A cell of a decoded sheet is    *)
(* either such a text or the missing value NaN; Python's None and pandas'  *)
(* NaN are the two reserved values below, which no text equals (a text's   *)
(* elements are single characters).  An exception raised inside a function *)
(* is the reserved result Raised.                                          *)
(*                                                                         *)
(* Three specifications share the module: SpecRut applies the identifier   *)
(* normaliser to one raw value, SpecSheet applies process_sheet to one     *)
(* sheet, and Spec is a run of run_app over uploaded files.                *)
(***************************************************************************)
EXTENDS Naturals, Sequences, FiniteSets, TLC

VARIABLES
    pc,         \* which stage the modelled run is in
    rut_str,    \* identifier normaliser: the raw identifier cell
    dv_cell,    \* identifier normaliser: the check-character cell
    dv_col,     \* identifier normaliser: whether the sheet has a dv column
    rut_res,    \* identifier normaliser: the value stored in out["rut"]
    df,         \* sheet transformer: the decoded sheet handed to process_sheet
    part,       \* sheet transformer: what process_sheet returned
    uploaded,   \* run_app: the files handled so far, in upload order
    logs,       \* run_app: the log lines accumulated so far
    chunks,     \* run_app: the non-empty frames collected so far
    agg         \* run_app: the consolidated table, once built

vars == <<pc, rut_str, dv_cell, dv_col, rut_res, df, part, uploaded, logs, chunks, agg>>

---------------------------------------------------------------------------
(* Bounds of the model *)

\* the longest raw identifier text given to the identifier normaliser
MaxRutLen == 4
\* the most rows of a sheet given to the sheet transformer
MaxRows == 3
\* the most files of one upload
MaxFiles == 2
\* the most sheets of one upload, over all its files
MaxSheets == 2

---------------------------------------------------------------------------
(* Python values *)

\* the list a comprehension builds: the sequence with its elements evaluated
List(f) == f \o <<>>

\* the characters of a string literal, as a sequence
Chars(lit) == List([i \in 1..Len(lit) |-> SubSeq(lit, i, i)])

None == <<"None">>
NaN == <<"NaN">>
Raised == <<"Raised">>

\* pd.isna / pd.notna on a scalar
IsNa(x) == x = None \/ x = NaN
NotNa(x) == ~IsNa(x)

\* equal, or both missing
Same(a, b) == (IsNa(a) /\ IsNa(b)) \/ a = b

\* str(x)
Str(x) == IF x = NaN THEN Chars("nan") ELSE IF x = None THEN Chars("None") ELSE x

\* bool(x) of an Optional[str] or a float NaN: only None and "" are falsy
Truthy(x) == x # None /\ x # <<>>

---------------------------------------------------------------------------
(* Characters and str methods *)

LowerLetters == Chars("abcdefghijklmnopqrstuvwxyzáéíóúñ")
UpperLetters == Chars("ABCDEFGHIJKLMNOPQRSTUVWXYZÁÉÍÓÚÑ")
AccentedLetters == Chars("áéíóúñÁÉÍÓÚÑ")
PlainLetters == Chars("aeiounAEIOUN")
DigitSet == {"0", "1", "2", "3", "4", "5", "6", "7", "8", "9"}

\* character c, replaced by its counterpart in to when it occurs in from
TranslateChar(from, to, c) ==
    IF \E k \in 1..Len(from) : from[k] = c
    THEN to[CHOOSE k \in 1..Len(from) : from[k] = c]
    ELSE c

Translate(from, to, s) == List([i \in 1..Len(s) |-> TranslateChar(from, to, s[i])])

\* str.upper / str.lower
Upper(s) == Translate(LowerLetters, UpperLetters, s)
Lower(s) == Translate(UpperLetters, LowerLetters, s)

\* unidecode(s), on the letters of the model's alphabet
Unidecode(s) == Translate(AccentedLetters, PlainLetters, s)

IsDigit(c) == c \in DigitSet
\* the characters str.strip() trims and the regex class \s matches
IsSpace(c) == c = " " \/ c = "\t" \/ c = "\n"

RECURSIVE LStrip(_)
LStrip(s) == IF s # <<>> /\ IsSpace(Head(s)) THEN LStrip(Tail(s)) ELSE s

RECURSIVE RStrip(_)
RStrip(s) ==
    IF s # <<>> /\ IsSpace(s[Len(s)]) THEN RStrip(SubSeq(s, 1, Len(s) - 1)) ELSE s

\* str.strip()
Strip(s) == RStrip(LStrip(s))

\* s[-1:]
LastChar(s) == IF s = <<>> THEN <<>> ELSE <<s[Len(s)]>>

\* re.sub(r"\D", "", s)
OnlyDigits(s) == SelectSeq(s, IsDigit)

\* "-" in s
HasHyphen(s) == \E i \in 1..Len(s) : s[i] = "-"

\* s.split("-"): every hyphen separates two segments
RECURSIVE SplitHyphen(_)
SplitAt(s, i) == <<SubSeq(s, 1, i - 1)>> \o SplitHyphen(SubSeq(s, i + 1, Len(s)))
SplitHyphen(s) ==
    IF ~HasHyphen(s) THEN <<s>>
    ELSE SplitAt(s, CHOOSE k \in 1..Len(s) :
                        s[k] = "-" /\ \A j \in 1..(k - 1) : s[j] # "-")

\* the characters norm() deletes: [\s\.\-_/:;]
IsNormSep(c) == IsSpace(c) \/ c \in {".", "-", "_", "/", ":", ";"}
NotNormSep(c) == ~IsNormSep(c)

norm(s) == IF s = None THEN <<>> ELSE SelectSeq(Lower(Unidecode(Str(s))), NotNormSep)

\* s if s else None
NoneIfEmpty(s) == IF s # <<>> THEN s ELSE None

clean_text(x) == IF IsNa(x) THEN None ELSE NoneIfEmpty(Strip(Str(x)))

---------------------------------------------------------------------------
(* RUT helpers *)

NotSpaceChar(c) == c # " "
NotRutSep(c) == c # "." /\ c # "-"

\* lines 131 to 135: the check character comes from the dv value
dv_rule(cuerpo, dv) == IF cuerpo = <<>> THEN None ELSE cuerpo \o <<"-">> \o dv

\* lines 141 to 143
body_dash_dv(cuerpo, dv) ==
    IF cuerpo = <<>> \/ dv = <<>> THEN None ELSE cuerpo \o <<"-">> \o dv

\* a faulty variant of hyphen_rule, which the properties must tell apart from it:
\* it reads the check character from the last
\* hyphen-separated segment instead of the second
hyphen_rule_last_segment(p) ==
    body_dash_dv(OnlyDigits(p[1]), Upper(LastChar(p[Len(p)])))

\* lines 138 to 143, p being s.split("-")
hyphen_rule(p) ==
    body_dash_dv(OnlyDigits(p[1]), IF Len(p) > 1 THEN Upper(LastChar(p[2])) ELSE <<>>)

\* lines 130 to 146, s being the stripped, upper-cased, space-free raw value
rut_rules(s, dv_str) ==
    IF dv_str # None /\ Strip(Str(dv_str)) # <<>>
    THEN dv_rule(OnlyDigits(SelectSeq(s, NotRutSep)), LastChar(Upper(Strip(Str(dv_str)))))
    ELSE IF HasHyphen(s) THEN hyphen_rule(SplitHyphen(s))
    ELSE NoneIfEmpty(OnlyDigits(SelectSeq(s, NotRutSep)))

normalize_rut_str(rut, dv_str) ==
    IF rut = None THEN None
    ELSE rut_rules(SelectSeq(Upper(Strip(Str(rut))), NotSpaceChar), dv_str)

\* the element process_sheet stores in out["rut"] for one row:
\* normalize_rut_str(r, df[dv_col].iloc[i] if dv_col else None)
rut_of_row(r, dvc, has_dv_col) ==
    normalize_rut_str(r, IF has_dv_col THEN dvc ELSE None)

\* a faulty variant of rut_group_key, which the properties must tell apart from it:
\* it keys an identified record by its whole
\* canonical identifier, check character included
rut_group_key_whole_rut(rut_normalizado, nombre) ==
    IF Truthy(rut_normalizado)
    THEN IF rut_normalizado = NaN THEN Raised ELSE rut_normalizado
    ELSE IF Truthy(nombre)
    THEN IF nombre = NaN THEN Raised ELSE Lower(Strip(Unidecode(nombre)))
    ELSE None

\* rut_group_key: a float NaN is truthy and has neither .split nor a
\* transliteration, so either branch raises on it
rut_group_key(rut_normalizado, nombre) ==
    IF Truthy(rut_normalizado)
    THEN IF rut_normalizado = NaN THEN Raised ELSE SplitHyphen(rut_normalizado)[1]
    ELSE IF Truthy(nombre)
    THEN IF nombre = NaN THEN Raised ELSE Lower(Strip(Unidecode(nombre)))
    ELSE None

---------------------------------------------------------------------------
(* Header mapping *)

EQUIV ==
    [rut |-> <<Chars("rut"), Chars("run"), Chars("r.u.t"), Chars("r.u.n"),
               Chars("documento"), Chars("doc"), Chars("id"), Chars("dni"),
               Chars("rut trabajador"), Chars("run trabajador"), Chars("cod. pers"),
               Chars("cod pers"), Chars("codigo persona"), Chars("codigo trabajador")>>,
     dv |-> <<Chars("dv"), Chars("digito verificador"), Chars("d.v"), Chars("digito"),
              Chars("dígito")>>,
     nombre |-> <<Chars("nombre"), Chars("nombres"), Chars("trabajador"),
                  Chars("colaborador"), Chars("empleado"), Chars("persona"),
                  Chars("nombre trabajador")>>,
     especialidad |-> <<Chars("especialidad"), Chars("especialización"),
                        Chars("especialidad laboral"), Chars("oficio"), Chars("perfil"),
                        Chars("cargo"), Chars("puesto"), Chars("ocupacion"),
                        Chars("ocupación")>>,
     contrato |-> <<Chars("contrato"), Chars("tipo contrato"), Chars("tipocontrato"),
                    Chars("modalidad"), Chars("tipo de contrato"),
                    Chars("relacion laboral"), Chars("relación laboral")>>,
     supervisor |-> <<Chars("supervisor"), Chars("jefe directo"), Chars("jefe"),
                      Chars("encargado"), Chars("capataz"), Chars("mandante supervisor"),
                      Chars("line manager")>>,
     rut_empleador |-> <<Chars("rut empleador"), Chars("rut empresa"),
                         Chars("rut contratista"), Chars("rut contratante"),
                         Chars("rut razon social"), Chars("rut razón social"),
                         Chars("rut de la empresa"), Chars("rut del empleador")>>,
     fecha |-> <<Chars("fecha"), Chars("dia"), Chars("día"), Chars("fecha jornada"),
                 Chars("f asistencia")>>,
     entrada |-> <<Chars("entrada"), Chars("hora entrada"), Chars("ingreso"),
                   Chars("checkin"), Chars("h.entrada")>>,
     salida |-> <<Chars("salida"), Chars("hora salida"), Chars("egreso"),
                  Chars("checkout"), Chars("h.salida")>>]

\* norm(v) of every synonym, computed once
NormEquiv == [c \in DOMAIN EQUIV |-> List([i \in 1..Len(EQUIV[c]) |-> norm(EQUIV[c][i])])]

\* nc[k]: the LAST column whose normalised header is k (the dict
\* comprehension of line 57 overwrites earlier columns)
nc(cols, ncols, k) ==
    cols[CHOOSE j \in 1..Len(cols) :
            ncols[j] = k /\ \A j2 \in (j + 1)..Len(cols) : ncols[j2] # k]

\* the column of the FIRST synonym that is a key of nc, None (mapping.get)
\* when no synonym is
first_variant(cols, ncols, variants) ==
    IF \A i \in 1..Len(variants) : \A j \in 1..Len(cols) : ncols[j] # variants[i]
    THEN None
    ELSE nc(cols, ncols,
            variants[CHOOSE i \in 1..Len(variants) :
                        /\ \E j \in 1..Len(cols) : ncols[j] = variants[i]
                        /\ \A i2 \in 1..(i - 1) :
                              \A j \in 1..Len(cols) : ncols[j] # variants[i2]])

mapping_of(cols, ncols) ==
    [canon \in DOMAIN EQUIV |-> first_variant(cols, ncols, NormEquiv[canon])]

\* map_columns(cols), as the function canon |-> mapping.get(canon)
map_columns(cols) == mapping_of(cols, List([j \in 1..Len(cols) |-> norm(cols[j])]))

---------------------------------------------------------------------------
(* Sheet transformer.  A decoded sheet is [cols, rows]: the headers in     *)
(* column order and the rows in sheet order, each row a function from      *)
(* header to cell.  read_excel labels the rows 0, 1, 2, ...                *)

OutCols == <<"rut", "nombre", "especialidad", "contrato", "supervisor", "rut_empleador">>

RECURSIVE SeqRange(_, _)
\* <<a, a+1, ..., b>>
SeqRange(a, b) == IF a > b THEN <<>> ELSE <<a>> \o SeqRange(a + 1, b)

\* the cell of the row labelled l in column col
cell(d, l, col) == d.rows[l + 1][col]

\* the labels df.dropna(how="all") keeps: rows with some non-missing cell
dropna_all(d) ==
    SelectSeq(SeqRange(0, Len(d.rows) - 1),
              LAMBDA l : \E j \in 1..Len(d.cols) : NotNa(cell(d, l, d.cols[j])))

\* a frame is [index, col]: its row labels and its columns, each column a
\* sequence aligned with the index

\* column name set to values, stored by position
put(out, name, values) ==
    [index |-> out.index,
     col |-> [c \in DOMAIN out.col \cup {name} |->
                IF c = name THEN values ELSE out.col[c]]]

\* a frame without rows taking a new index: its columns are filled with NaN
\* (DataFrame._ensure_valid_index)
reindexed(out, index) ==
    [index |-> index,
     col |-> [c \in DOMAIN out.col |-> List([i \in 1..Len(index) |-> NaN])]]

\* out[name] = <list>: a frame without rows takes the list's RangeIndex; the
\* list is stored by position
set_list(out, name, values) ==
    IF out.index = <<>> /\ values # <<>>
    THEN put(reindexed(out, SeqRange(0, Len(values) - 1)), name, values)
    ELSE put(out, name, values)

\* the value a Series holds at label l, NaN when it has no such label
at_label(labels, values, l) ==
    IF \E k \in 1..Len(labels) : labels[k] = l
    THEN values[CHOOSE k \in 1..Len(labels) : labels[k] = l]
    ELSE NaN

\* out[name] = <Series>: a frame without rows takes the Series' index;
\* otherwise the Series is aligned to the frame's index BY LABEL
set_series(out, name, labels, values) ==
    IF out.index = <<>> /\ values # <<>>
    THEN put(reindexed(out, labels), name, values)
    ELSE put(out, name,
             List([i \in 1..Len(out.index) |-> at_label(labels, values, out.index[i])]))

\* out[name] = None: the scalar in every row the frame has
set_scalar(out, name, value) == put(out, name, List([i \in 1..Len(out.index) |-> value]))

\* out[name] = df[col].apply(clean_text) if col else None
set_text(out, name, d, labels, col) ==
    IF col = None THEN set_scalar(out, name, None)
    ELSE set_series(out, name, labels,
                    List([k \in 1..Len(labels) |-> clean_text(cell(d, labels[k], col))]))

\* lines 174 to 181: out["rut"], a list when the sheet has a rut column
set_rut(out, d, labels, rut_col, dv_column) ==
    IF rut_col = None THEN out
    ELSE set_list(out, "rut",
            List([k \in 1..Len(labels) |->
                    rut_of_row(cell(d, labels[k], rut_col),
                               IF dv_column # None THEN cell(d, labels[k], dv_column) ELSE NaN,
                               dv_column # None)]))

\* line 187: out["rut_empleador"], a list when the sheet has the column
set_rut_empleador(out, d, labels, rut_emp_col) ==
    IF rut_emp_col = None THEN set_scalar(out, "rut_empleador", None)
    ELSE set_list(out, "rut_empleador",
            List([k \in 1..Len(labels) |->
                    normalize_rut_str(cell(d, labels[k], rut_emp_col), None)]))

\* the frame process_sheet builds column by column (lines 174 to 187)
build_out(d, labels, mapping) ==
    set_rut_empleador(
        set_text(
            set_text(
                set_text(
                    set_text(
                        set_rut(set_scalar([index |-> <<>>, col |-> <<>>], "rut", None),
                                d, labels, mapping["rut"], mapping["dv"]),
                        "nombre", d, labels, mapping["nombre"]),
                    "especialidad", d, labels, mapping["especialidad"]),
                "contrato", d, labels, mapping["contrato"]),
            "supervisor", d, labels, mapping["supervisor"]),
        d, labels, mapping["rut_empleador"])

\* the rows of a frame, each a record of its six columns
frame_rows(out) ==
    List([i \in 1..Len(out.index) |->
            [c \in {OutCols[j] : j \in 1..Len(OutCols)} |-> out.col[c][i]]])

\* what process_sheet gives back: a frame of records (pd.DataFrame() has
\* none), or the exception it raised
Returned(records) == [raised |-> FALSE, rows |-> records]
Raises == [raised |-> TRUE, rows |-> <<>>]

HasRutOrName(r) == NotNa(r.rut) \/ NotNa(r.nombre)
HasKey(r) == NotNa(r.key)

\* a kept row with its __marca and __key
keyed(r, k) ==
    [rut |-> r.rut, nombre |-> r.nombre, especialidad |-> r.especialidad,
     contrato |-> r.contrato, supervisor |-> r.supervisor,
     rut_empleador |-> r.rut_empleador, marca |-> 1, key |-> k]

\* lines 193 to 199: rut_group_key of every kept row; one call raising makes
\* process_sheet raise
with_keys(kept, keys) ==
    IF \E i \in 1..Len(kept) : keys[i] = Raised THEN Raises
    ELSE Returned(SelectSeq([i \in 1..Len(kept) |-> keyed(kept[i], keys[i])], HasKey))

\* lines 189 to 199
after_filter(kept) ==
    IF kept = <<>> THEN Returned(<<>>)
    ELSE with_keys(kept,
                   List([i \in 1..Len(kept) |-> rut_group_key(kept[i].rut, kept[i].nombre)]))

\* lines 161 to 199, labels being the index of the frame dropna left
after_dropna(d, labels) ==
    IF labels = <<>> THEN Returned(<<>>)
    ELSE after_filter(SelectSeq(frame_rows(build_out(d, labels, map_columns(d.cols))),
                                HasRutOrName))

process_sheet(d) ==
    IF d.rows = <<>> \/ d.cols = <<>> THEN Returned(<<>>) ELSE after_dropna(d, dropna_all(d))

---------------------------------------------------------------------------
(* File reader.  An uploaded file is [sig, ext, opens, sheets]: the        *)
(* signature its bytes start with, its extension, the engines able to open *)
(* it, and its sheets in workbook order, each [readable, df].              *)

_sniff_excel_kind(f) ==
    IF f.sig = "PK" THEN "xlsx"
    ELSE IF f.sig = "OLE2" THEN "xls"
    ELSE IF f.ext = ".xlsx" THEN "xlsx"
    ELSE IF f.ext = ".xls" THEN "xls"
    ELSE "unknown"

\* a log line: its level, what it reports, and the sheet it is about
LogLine(level, what, sheet) == [level |-> level, what |-> what, sheet |-> sheet]

RECURSIVE read_sheets(_, _, _, _)

\* a faulty variant of sheet_turn, which the properties must tell apart from it:
\* it gives up the file at the first sheet that
\* fails
sheet_turn_stop_at_failure(sheets, i, parts, file_logs, p) ==
    IF ~sheets[i].readable \/ p.raised
    THEN [parts |-> parts, logs |-> Append(file_logs, LogLine("ERROR", "sheet_failed", i))]
    ELSE IF p.rows # <<>>
    THEN read_sheets(sheets, i + 1, Append(parts, p.rows), file_logs)
    ELSE read_sheets(sheets, i + 1, parts,
                     Append(file_logs, LogLine("AVISO", "no_valid_rows", i)))

\* one turn of the loop over the sheets (lines 252 to 260), p being what
\* process_sheet does with the sheet: read_excel or process_sheet raising is
\* caught and logged, and the loop goes on
sheet_turn(sheets, i, parts, file_logs, p) ==
    IF ~sheets[i].readable \/ p.raised
    THEN read_sheets(sheets, i + 1, parts,
                     Append(file_logs, LogLine("ERROR", "sheet_failed", i)))
    ELSE IF p.rows # <<>>
    THEN read_sheets(sheets, i + 1, Append(parts, p.rows), file_logs)
    ELSE read_sheets(sheets, i + 1, parts,
                     Append(file_logs, LogLine("AVISO", "no_valid_rows", i)))

\* the loop over the sheets of process_excel_bytes (lines 250 to 260), from
\* sheet i on
read_sheets(sheets, i, parts, file_logs) ==
    IF i > Len(sheets) THEN [parts |-> parts, logs |-> file_logs]
    ELSE sheet_turn(sheets, i, parts, file_logs, process_sheet(sheets[i].df))

RECURSIVE concat(_)
\* pd.concat(frames, ignore_index=True)
concat(frames) == IF frames = <<>> THEN <<>> ELSE Head(frames) \o concat(Tail(frames))

\* lines 262 to 264
file_result(r) == [df |-> concat(r.parts), logs |-> r.logs]

\* lines 236 to 264, engine being the one the kind selects
open_workbook(f, engine, alt_engine) ==
    IF engine \in f.opens THEN file_result(read_sheets(f.sheets, 1, <<>>, <<>>))
    ELSE IF alt_engine \in f.opens
    THEN file_result(read_sheets(f.sheets, 1, <<>>,
                                 <<LogLine("AVISO", "misleading_extension", 0)>>))
    ELSE [df |-> <<>>, logs |-> <<LogLine("ERROR", "unopenable", 0)>>]

\* lines 228 to 264
by_kind(f, kind) ==
    IF kind = "xlsx" THEN open_workbook(f, "openpyxl", "xlrd")
    ELSE IF kind = "xls" THEN open_workbook(f, "xlrd", "openpyxl")
    ELSE [df |-> <<>>, logs |-> <<LogLine("ERROR", "unsupported", 0)>>]

\* process_excel_bytes: [df, logs]
process_excel_bytes(f) == by_kind(f, _sniff_excel_kind(f))

---------------------------------------------------------------------------
(* Consolidation *)

\* pd.notna(v) and str(v).strip()
usable(v) == NotNa(v) /\ Strip(Str(v)) # <<>>

\* a faulty variant of first_non_null, which the properties must tell apart from it:
\* it lets a later usable value replace an
\* earlier one
RECURSIVE first_non_null_last_wins(_)
first_non_null_last_wins(series) ==
    IF series = <<>> THEN None
    ELSE IF usable(series[Len(series)]) THEN series[Len(series)]
    ELSE first_non_null_last_wins(SubSeq(series, 1, Len(series) - 1))

RECURSIVE first_non_null(_)
first_non_null(series) ==
    IF series = <<>> THEN None
    ELSE IF usable(Head(series)) THEN Head(series)
    ELSE first_non_null(Tail(series))

HasRut(r) == NotNa(r.rut)

\* a faulty variant of sum_marca, which the properties must tell apart from it:
\* it counts the identified records only, as
\* grp["rut"].count() would
sum_marca_count_rut(group) == Len(SelectSeq(group, HasRut))

RECURSIVE sum_marca(_)
\* grp["__marca"].sum()
sum_marca(group) == IF group = <<>> THEN 0 ELSE Head(group).marca + sum_marca(Tail(group))

\* str < str: by code point, a proper prefix first
CodeOrder ==
    Chars("\t\n -./0123456789:;ABCDEFGHIJKLMNOPQRSTUVWXYZ_abcdefghijklmnopqrstuvwxyzÁÉÍÑÓÚáéíñóú")
CodePoint == [c \in {CodeOrder[i] : i \in 1..Len(CodeOrder)} |->
                CHOOSE i \in 1..Len(CodeOrder) : CodeOrder[i] = c]

StrLess(a, b) ==
    \/ Len(a) < Len(b) /\ SubSeq(b, 1, Len(a)) = a
    \/ \E i \in 1..Len(a) :
          /\ i <= Len(b)
          /\ SubSeq(a, 1, i - 1) = SubSeq(b, 1, i - 1)
          /\ CodePoint[a[i]] < CodePoint[b[i]]

RECURSIVE SortedSeq(_)
\* the least text of a set, then the others in ascending order
LeastFirst(S, m) == <<m>> \o SortedSeq(S \ {m})
\* the texts of a set in ascending order: groupby sorts the group keys
SortedSeq(S) ==
    IF S = {} THEN <<>>
    ELSE LeastFirst(S, CHOOSE x \in S : \A y \in S : x = y \/ StrLess(x, y))

\* ascending, a missing value last
ValueLess(a, b) == NotNa(a) /\ (IsNa(b) \/ StrLess(a, b))

\* x sorts strictly before y on the columns by
RowLess(x, y, by) ==
    \E k \in 1..Len(by) :
        /\ \A j \in 1..(k - 1) : Same(x[by[j]], y[by[j]])
        /\ ValueLess(x[by[k]], y[by[k]])

\* rows with x put in after its first n rows
insert_at(rows, x, n) == SubSeq(rows, 1, n) \o <<x>> \o SubSeq(rows, n + 1, Len(rows))

\* x put into sorted rows behind every row that does not sort after it
insert_sorted(rows, x, by) ==
    insert_at(rows, x, Cardinality({i \in 1..Len(rows) : ~RowLess(x, rows[i], by)}))

RECURSIVE sort_values(_, _)
\* DataFrame.sort_values(by, kind="mergesort"): a stable sort
sort_values(rows, by) ==
    IF rows = <<>> THEN <<>>
    ELSE insert_sorted(sort_values(SubSeq(rows, 1, Len(rows) - 1), by), rows[Len(rows)], by)

\* the values of column c of a group
column(g, c) == List([i \in 1..Len(g) |-> g[i][c]])

\* the records of raw with key k, in raw order
group_of(raw, k) == SelectSeq(raw, LAMBDA r : r.key = k)

\* lines 320 to 328: the row of one group.  key is the groupby index, which
\* reset_index(drop=True) removes from the table; it is kept here to name
\* the group the row stands for.
agg_row(g, k) ==
    [rut |-> first_non_null(column(g, "rut")),
     nombre |-> first_non_null(column(g, "nombre")),
     especialidad |-> first_non_null(column(g, "especialidad")),
     contrato |-> first_non_null(column(g, "contrato")),
     supervisor |-> first_non_null(column(g, "supervisor")),
     rut_empleador |-> first_non_null(column(g, "rut_empleador")),
     marcas |-> sum_marca(g),
     key |-> k]

\* lines 319 to 328: one row per key, the groups in key order
grouped(raw, keys) ==
    List([i \in 1..Len(keys) |-> agg_row(group_of(raw, keys[i]), keys[i])])

\* lines 330 to 333
sorted_table(rows) ==
    IF \E i \in 1..Len(rows) : NotNa(rows[i].rut)
    THEN sort_values(rows, <<"rut", "nombre">>)
    ELSE sort_values(rows, <<"nombre">>)

\* lines 319 to 333, raw being the concatenated frames
consolidate_raw(raw) ==
    sorted_table(grouped(raw, SortedSeq({raw[i].key : i \in 1..Len(raw)})))

\* the consolidated table of run_app (lines 317 to 333)
consolidate(frames) == consolidate_raw(concat(frames))

\* a faulty variant of collect, which the properties must tell apart from it:
\* it keeps a file's frame even when it is empty
collect_always(frames, file_df) == Append(frames, file_df)

\* chunks after one file (lines 307 and 308): only a non-empty frame is kept
collect(frames, file_df) == IF file_df # <<>> THEN Append(frames, file_df) ELSE frames

---------------------------------------------------------------------------
(* Inputs of the identifier normaliser *)

RutAlphabet == {"1", "2", "-", ".", "k", " "}

RECURSIVE StringsUpTo(_, _)
\* the texts over an alphabet of at most n characters
StringsUpTo(alphabet, n) ==
    IF n = 0 THEN {<<>>}
    ELSE StringsUpTo(alphabet, n - 1)
         \cup {Append(s, c) : s \in StringsUpTo(alphabet, n - 1), c \in alphabet}

RutInputs == StringsUpTo(RutAlphabet, MaxRutLen) \cup {NaN}
DvInputs == {NaN, <<>>, Chars(" "), Chars("5"), Chars("k"), Chars(" k "), Chars("5k")}

\* the stages of the three specifications that are not the active one
IdleRut == /\ rut_str = <<>> /\ dv_cell = NaN /\ dv_col = FALSE /\ rut_res = None
IdleSheet == /\ df = [cols |-> <<>>, rows |-> <<>>] /\ part = Returned(<<>>)
IdleRun == /\ uploaded = <<>> /\ logs = <<>> /\ chunks = <<>> /\ agg = <<>>

InitRut ==
    /\ pc = "rut_in"
    /\ rut_str \in RutInputs
    /\ dv_col \in BOOLEAN
    /\ dv_cell \in (IF dv_col THEN DvInputs ELSE {NaN})
    /\ rut_res = None
    /\ IdleSheet /\ IdleRun

\* the element of the list of lines 178 to 181 for one row
NormalizeRut ==
    /\ pc = "rut_in"
    /\ rut_res' = rut_of_row(rut_str, dv_cell, dv_col)
    /\ pc' = "rut_out"
    /\ UNCHANGED <<rut_str, dv_cell, dv_col, df, part, uploaded, logs, chunks, agg>>

NextRut == NormalizeRut

SpecRut == InitRut /\ [][NextRut]_vars

---------------------------------------------------------------------------
(* Inputs of the sheet transformer: three column layouts, whose headers    *)
(* are synonyms of the canonical fields, and every sheet of at most        *)
(* MaxRows rows over each layout's rows.                                   *)

SeqsUpTo(S, n) == UNION {[1..k -> S] : k \in 0..n}

H_RUT == Chars("RUT")
H_DV == Chars("D.V")
H_Nombre == Chars("Nombre")
H_Trabajador == Chars("Trabajador")
H_Cargo == Chars("Cargo")
H_Contrato == Chars("Tipo Contrato")
H_Jefe == Chars("Jefe")
H_RutEmpresa == Chars("Rut Empresa")

LayoutId == <<H_RUT, H_Nombre>>
LayoutName == <<H_Trabajador, H_Jefe>>
LayoutFull == <<H_RUT, H_DV, H_Nombre, H_Cargo, H_Contrato, H_Jefe, H_RutEmpresa>>

IdCells == {NaN, Chars("1-9"), Chars("2-7")}
NameCells == {NaN, Chars("Ana"), Chars("Eva")}

IdRow(r, n) == [h \in {H_RUT, H_Nombre} |-> IF h = H_RUT THEN r ELSE n]
NameRow(n, j) == [h \in {H_Trabajador, H_Jefe} |-> IF h = H_Trabajador THEN n ELSE j]
FullRow(r, d, n, e, c, j, re) ==
    [h \in {LayoutFull[i] : i \in 1..Len(LayoutFull)} |->
        IF h = H_RUT THEN r ELSE IF h = H_DV THEN d ELSE IF h = H_Nombre THEN n
        ELSE IF h = H_Cargo THEN e ELSE IF h = H_Contrato THEN c
        ELSE IF h = H_Jefe THEN j ELSE re]

RowsId == {IdRow(r, n) : r \in IdCells, n \in NameCells}
RowsName == {NameRow(n, j) : n \in NameCells, j \in {NaN, Chars("S")}}
RowsFull ==
    {FullRow(NaN, NaN, NaN, NaN, NaN, NaN, NaN),
     FullRow(Chars("1"), Chars("9"), Chars("Ana"), Chars("P"), Chars("F"), Chars("S"),
             Chars("7-K")),
     FullRow(Chars("2"), Chars("7"), Chars("Eva"), Chars("Q"), Chars("G"), Chars("T"),
             Chars("8-K")),
     FullRow(NaN, NaN, NaN, Chars("R"), NaN, NaN, NaN)}

SheetInputs ==
    {[cols |-> LayoutId, rows |-> rs] : rs \in SeqsUpTo(RowsId, MaxRows)}
    \cup {[cols |-> LayoutName, rows |-> rs] : rs \in SeqsUpTo(RowsName, MaxRows)}
    \cup {[cols |-> LayoutFull, rows |-> rs] : rs \in SeqsUpTo(RowsFull, MaxRows)}

InitSheet ==
    /\ pc = "sheet_in"
    /\ df \in SheetInputs
    /\ part = Returned(<<>>)
    /\ IdleRut /\ IdleRun

\* part = process_sheet(df), line 254
ProcessSheet ==
    /\ pc = "sheet_in"
    /\ part' = process_sheet(df)
    /\ pc' = "sheet_out"
    /\ UNCHANGED <<rut_str, dv_cell, dv_col, rut_res, df, uploaded, logs, chunks, agg>>

NextSheet == ProcessSheet

SpecSheet == InitSheet /\ [][NextSheet]_vars

---------------------------------------------------------------------------
(* Inputs of a run: files of four kinds, their sheets drawn from a pool.   *)

SheetPool ==
    { \* worker 1 by identifier and name
      [cols |-> LayoutId, rows |-> <<IdRow(Chars("1-9"), Chars("Ana"))>>],
      \* the same name alone, with a supervisor, in a sheet without rut column
      [cols |-> LayoutName, rows |-> <<NameRow(Chars("Ana"), Chars("S"))>>],
      \* the same name alone, with a supervisor, the rut cell empty
      [cols |-> LayoutFull,
       rows |-> <<FullRow(NaN, NaN, Chars("ANÁ"), NaN, NaN, Chars("S"), NaN)>>],
      \* worker 1 twice more, other check characters, contradictory fields
      [cols |-> LayoutFull,
       rows |-> <<FullRow(Chars("1"), Chars("8"), Chars("Eva"), Chars("P"), NaN,
                          Chars("T"), Chars("7-K")),
                  FullRow(Chars("1"), Chars("7"), NaN, Chars("Q"), Chars("F"),
                          NaN, Chars("8-K"))>>],
      \* names that differ by inner spaces, worker 1 by the body alone, and
      \* another worker
      [cols |-> LayoutId,
       rows |-> <<IdRow(NaN, Chars("an  a")), IdRow(Chars("1"), NaN),
                  IdRow(Chars("2-9"), Chars("Ana")), IdRow(NaN, Chars("an a"))>>],
      \* a sheet of blank rows only
      [cols |-> LayoutId, rows |-> <<IdRow(NaN, NaN)>>] }

\* the sheets of a workbook: those of the pool, and one read_excel fails on
SheetsOfFile ==
    {[readable |-> TRUE, df |-> d] : d \in SheetPool}
    \cup {[readable |-> FALSE, df |-> [cols |-> <<>>, rows |-> <<>>]]}

\* a workbook, a workbook only the other engine opens, a file that is no
\* spreadsheet, and a damaged workbook
FileHeads ==
    { [sig |-> "PK", ext |-> ".xlsx", opens |-> {"openpyxl"}],
      [sig |-> "other", ext |-> ".xlsx", opens |-> {"xlrd"}],
      [sig |-> "other", ext |-> ".csv", opens |-> {}],
      [sig |-> "OLE2", ext |-> ".xls", opens |-> {}] }

\* the files an upload may go on with when n sheets are still allowed: a
\* file that opens has at least one sheet
FileInputs(n) ==
    UNION {{[sig |-> h.sig, ext |-> h.ext, opens |-> h.opens, sheets |-> shs] :
                shs \in IF h.opens = {} THEN {<<>>}
                        ELSE UNION {[1..k -> SheetsOfFile] : k \in 1..n}} :
           h \in FileHeads}

RECURSIVE SheetCount(_)
SheetCount(files) ==
    IF files = <<>> THEN 0 ELSE Len(Head(files).sheets) + SheetCount(Tail(files))

---------------------------------------------------------------------------
(* run_app, from the press of "Procesar": one step per uploaded file, then *)
(* the batch-empty stop or the consolidation.  run_app returns before the  *)
(* button when nothing is uploaded, so a run has at least one file.        *)

Init ==
    /\ pc = "files"
    /\ uploaded = <<>>
    /\ logs = <<>>
    /\ chunks = <<>>
    /\ agg = <<>>
    /\ IdleRut /\ IdleSheet

\* lines 306 to 310: logs after the file whose result is r
extend_logs(r) ==
    logs \o r.logs \o (IF r.df # <<>> THEN <<>> ELSE <<LogLine("AVISO", "no_data", 0)>>)

\* lines 305 to 310 for the file uf, r being process_excel_bytes(uf)
take_file(uf, r) ==
    /\ uploaded' = Append(uploaded, uf)
    /\ chunks' = collect(chunks, r.df)
    /\ logs' = extend_logs(r)

\* one turn of the loop over the uploaded files (lines 304 to 310)
ProcessFile ==
    /\ pc = "files"
    /\ Len(uploaded) < MaxFiles
    /\ \E uf \in FileInputs(MaxSheets - SheetCount(uploaded)) :
          take_file(uf, process_excel_bytes(uf))
    /\ UNCHANGED <<pc, agg, rut_str, dv_cell, dv_col, rut_res, df, part>>

\* no file gave a frame: the error and the log are shown (lines 312 to 315)
BatchEmpty ==
    /\ pc = "files"
    /\ uploaded # <<>>
    /\ chunks = <<>>
    /\ pc' = "batch_empty"
    /\ UNCHANGED <<uploaded, logs, chunks, agg, rut_str, dv_cell, dv_col, rut_res, df, part>>

\* the table is built, shown and offered for download (lines 317 to 347)
Consolidate ==
    /\ pc = "files"
    /\ uploaded # <<>>
    /\ chunks # <<>>
    /\ agg' = consolidate(chunks)
    /\ pc' = "done"
    /\ UNCHANGED <<uploaded, logs, chunks, rut_str, dv_cell, dv_col, rut_res, df, part>>

Next == ProcessFile \/ BatchEmpty \/ Consolidate

Spec == Init /\ [][Next]_vars

---------------------------------------------------------------------------
(* Properties of the identifier normaliser, checked under SpecRut *)

\* the check-character value normalize_rut_str received
DvArg == IF dv_col THEN dv_cell ELSE None

\* the raw value upper-cased and with its white space removed
Cleaned(raw) == SelectSeq(Upper(Strip(Str(raw))), NotSpaceChar)

FirstHyphen(s) ==
    CHOOSE k \in 1..Len(s) : s[k] = "-" /\ \A j \in 1..(k - 1) : s[j] # "-"
LeftOfFirstHyphen(s) == SubSeq(s, 1, FirstHyphen(s) - 1)
RightOfFirstHyphen(s) == SubSeq(s, FirstHyphen(s) + 1, Len(s))
UpToHyphen(s) == IF HasHyphen(s) THEN LeftOfFirstHyphen(s) ELSE s

BodyCheck(body, chk) == IF body = <<>> \/ chk = <<>> THEN None ELSE body \o <<"-">> \o chk

\* no check-character value, or a blank one, and a raw value with a hyphen
HyphenCase ==
    /\ pc = "rut_out"
    /\ rut_str # NaN
    /\ DvArg = None \/ (DvArg # NaN /\ Strip(DvArg) = <<>>)
    /\ HasHyphen(Cleaned(rut_str))

\* C6 as stated: without a usable check-character value, a raw value with a
\* hyphen is split at its first hyphen; the body is the digits of the left
\* part and the check character is the upper-cased last character of
\* everything to the right of that first hyphen; absent if either is empty.
C6_FirstHyphenSplit ==
    HyphenCase =>
        rut_res = BodyCheck(OnlyDigits(LeftOfFirstHyphen(Cleaned(rut_str))),
                            Upper(LastChar(RightOfFirstHyphen(Cleaned(rut_str)))))

\* C6 as amended: the check character is the upper-cased last character of
\* the text between the first hyphen and the second one (of everything to the
\* right of the first hyphen when there is no second hyphen).
C6_SecondSegment ==
    HyphenCase =>
        rut_res = BodyCheck(OnlyDigits(LeftOfFirstHyphen(Cleaned(rut_str))),
                            Upper(LastChar(UpToHyphen(RightOfFirstHyphen(Cleaned(rut_str))))))

\* a raw value with two hyphens was normalised to an identifier whose check
\* character is not the last character of the raw value
C6_TwoHyphensNormalised ==
    /\ HyphenCase
    /\ HasHyphen(RightOfFirstHyphen(Cleaned(rut_str)))
    /\ rut_res # None
    /\ LastChar(rut_res) # Upper(LastChar(Cleaned(rut_str)))

\* the row's check-character cell is present, not missing and not blank
DvUsable == dv_col /\ dv_cell # NaN /\ Strip(dv_cell) # <<>>

\* the digits of the raw value, '-' and the upper-cased last character of the
\* trimmed check value; absent when the raw value has no digits
DigitsDashCheck(raw, chk) ==
    IF OnlyDigits(Str(raw)) = <<>> THEN None
    ELSE OnlyDigits(Str(raw)) \o <<"-">> \o Upper(LastChar(Strip(chk)))

\* C7 as stated: the check-character rule applies exactly when the
\* check-character value is provided and non-blank, giving the digits of the
\* raw value, '-' and the upper-cased last character of the check value,
\* absent when the raw value has no digits; with the cell missing or blank
\* the result is that of the call with no check-character value.
C7_DvRuleOnlyWhenUsable ==
    pc = "rut_out" =>
        IF DvUsable THEN rut_res = DigitsDashCheck(rut_str, dv_cell)
        ELSE rut_res = normalize_rut_str(rut_str, None)

\* the part of C7 the code does satisfy: a usable check-character cell
\* always decides the check character
DvRuleWhenUsable ==
    (pc = "rut_out" /\ DvUsable) => rut_res = DigitsDashCheck(rut_str, dv_cell)

---------------------------------------------------------------------------
(* Properties of the sheet transformer, checked under SpecSheet *)

\* the clean text of a row under the column mapped to canon
RowText(row, m, canon) == IF m[canon] = None THEN None ELSE clean_text(row[m[canon]])

\* the record one input row stands for under the header mapping m, every
\* field taken from that row
RowRecordOf(row, m) ==
    [rut |-> IF m["rut"] = None THEN None
             ELSE rut_of_row(row[m["rut"]],
                             IF m["dv"] # None THEN row[m["dv"]] ELSE NaN,
                             m["dv"] # None),
     nombre |-> RowText(row, m, "nombre"),
     especialidad |-> RowText(row, m, "especialidad"),
     contrato |-> RowText(row, m, "contrato"),
     supervisor |-> RowText(row, m, "supervisor"),
     rut_empleador |-> IF m["rut_empleador"] = None THEN None
                       ELSE normalize_rut_str(row[m["rut_empleador"]], None)]

RowRecord(d, row) == RowRecordOf(row, map_columns(d.cols))

SameFields(r, e) == \A j \in 1..Len(OutCols) : Same(r[OutCols[j]], e[OutCols[j]])

\* the records of the rows that have an identifier or a name, in row order
ExpectedRecords(d) ==
    SelectSeq([i \in 1..Len(d.rows) |-> RowRecordOf(d.rows[i], map_columns(d.cols))],
              HasRutOrName)

\* the records match the expected ones, one for one and field for field
MatchesRows(records, expected) ==
    /\ Len(records) = Len(expected)
    /\ \A i \in 1..Len(records) : SameFields(records[i], expected[i])

\* C10: process_sheet returns exactly one record for every row that has an
\* identifier or a name, in row order, and each record's rut, nombre,
\* especialidad, contrato, supervisor and rut_empleador are those of that one
\* row; also when blank rows were dropped, with or without a rut column.
C10_RowIntegrity ==
    pc = "sheet_out" => (~part.raised /\ MatchesRows(part.rows, ExpectedRecords(df)))

---------------------------------------------------------------------------
(* Properties of a run, checked under Spec *)

\* raw = pd.concat(chunks, ignore_index=True): the records consolidated
raw == concat(chunks)

\* the run reached one of its two ends
Ended == pc = "done" \/ pc = "batch_empty"

\* the file is recognised and one of the two engines opens it
Opens(f) == _sniff_excel_kind(f) # "unknown" /\ f.opens # {}

\* what process_sheet makes of each sheet a workbook may hold
SheetOutcome == [sh \in SheetsOfFile |-> process_sheet(sh.df)]

\* the sheet fails while being read or while being transformed
SheetFails(sh) == ~sh.readable \/ SheetOutcome[sh].raised

\* the records a sheet gives, none when it fails
SheetRecords(sh) == IF SheetFails(sh) THEN <<>> ELSE SheetOutcome[sh].rows

RECURSIVE RecordsOfSheets(_)
\* the records of the sheets that did not fail, in sheet order
RecordsOfSheets(sheets) ==
    IF sheets = <<>> THEN <<>>
    ELSE SheetRecords(Head(sheets)) \o RecordsOfSheets(Tail(sheets))

RECURSIVE RecordsOfFiles(_)
\* the records of the sheets that did not fail of the files that opened, in
\* file order
RecordsOfFiles(files) ==
    IF files = <<>> THEN <<>>
    ELSE (IF Opens(Head(files)) THEN RecordsOfSheets(Head(files).sheets) ELSE <<>>)
         \o RecordsOfFiles(Tail(files))

\* how many sheets of these failed
FailedSheets(sheets) == Cardinality({i \in 1..Len(sheets) : SheetFails(sheets[i])})

RECURSIVE Failures(_)
\* how many failures these files met: one for a file that does not open, one
\* for each failing sheet of a file that does
Failures(files) ==
    IF files = <<>> THEN 0
    ELSE (IF Opens(Head(files)) THEN FailedSheets(Head(files).sheets) ELSE 1)
         + Failures(Tail(files))

IsError(line) == line.level = "ERROR"

\* the row of the table that stands for the group of record r
GroupOf(r) == CHOOSE i \in 1..Len(agg) : agg[i].key = r.key

\* the records of raw in the group of row i of the table, in raw order
Members(i) == SelectSeq(raw, LAMBDA r : r.key = agg[i].key)

\* the digit body of a canonical identifier: its digits up to the hyphen
BodyOf(rut) == OnlyDigits(UpToHyphen(rut))

\* the upload is one workbook of two readable one-row sheets
OneFileTwoRows ==
    /\ Len(uploaded) = 1
    /\ Opens(uploaded[1])
    /\ Len(uploaded[1].sheets) = 2
    /\ \A i \in 1..2 : uploaded[1].sheets[i].readable /\ Len(uploaded[1].sheets[i].df.rows) = 1

\* first identifies a worker by identifier and name and has no supervisor;
\* second has the same name up to norm, no identifier, and a supervisor
LinkedPair(first, second) ==
    /\ NotNa(first.rut) /\ NotNa(first.nombre) /\ IsNa(first.supervisor)
    /\ IsNa(second.rut) /\ NotNa(second.nombre) /\ NotNa(second.supervisor)
    /\ norm(first.nombre) = norm(second.nombre)

\* the table is the one row that links first and second
LinkedRow(first, second) ==
    /\ pc = "done"
    /\ Len(agg) = 1
    /\ agg[1].marcas = 2
    /\ agg[1].rut = first.rut
    /\ agg[1].supervisor = second.supervisor

SheetRow(i) == RowRecord(uploaded[1].sheets[i].df, uploaded[1].sheets[i].df.rows[1])

\* C1: when one sheet holds a row that identifies a worker by identifier and
\* name and another sheet holds a row for the same worker with only the name
\* and a supervisor, the table has exactly one row for the worker, marcas 2,
\* rut from the first sheet and supervisor from the second.
C1_LinkedAcrossSheets ==
    (Ended /\ OneFileTwoRows /\ LinkedPair(SheetRow(1), SheetRow(2)))
        => LinkedRow(SheetRow(1), SheetRow(2))

\* C2: two consolidated records that both have an identifier stand in the
\* same row of the table exactly when the digit bodies of their identifiers
\* are equal, whatever their check characters.
C2_SameBodySameGroup ==
    pc = "done" =>
        \A a \in 1..Len(raw) : \A b \in 1..Len(raw) :
            (NotNa(raw[a].rut) /\ NotNa(raw[b].rut)) =>
                (GroupOf(raw[a]) = GroupOf(raw[b]) <=> BodyOf(raw[a].rut) = BodyOf(raw[b].rut))

\* a table in which one row stands for identifiers of one body with two
\* check characters and for the body alone, and another row for another body
C2_CheckCharsShareRow ==
    /\ pc = "done"
    /\ \E a \in 1..Len(raw) : \E b \in 1..Len(raw) : \E c \in 1..Len(raw) :
          /\ NotNa(raw[a].rut) /\ NotNa(raw[b].rut) /\ NotNa(raw[c].rut)
          /\ HasHyphen(raw[a].rut) /\ HasHyphen(raw[b].rut) /\ ~HasHyphen(raw[c].rut)
          /\ raw[a].rut # raw[b].rut
          /\ GroupOf(raw[a]) = GroupOf(raw[b]) /\ GroupOf(raw[b]) = GroupOf(raw[c])
    /\ \E a \in 1..Len(raw) : \E b \in 1..Len(raw) :
          /\ NotNa(raw[a].rut) /\ NotNa(raw[b].rut)
          /\ GroupOf(raw[a]) # GroupOf(raw[b])

\* C3: the group key of a record without identifier is norm of its name, so
\* two such records whose names have the same norm stand in the same row of
\* the table.
C3_NameKeyIsNorm ==
    pc = "done" =>
        /\ \A a \in 1..Len(raw) : IsNa(raw[a].rut) => raw[a].key = norm(raw[a].nombre)
        /\ \A a \in 1..Len(raw) : \A b \in 1..Len(raw) :
              (IsNa(raw[a].rut) /\ IsNa(raw[b].rut)
               /\ norm(raw[a].nombre) = norm(raw[b].nombre))
                  => GroupOf(raw[a]) = GroupOf(raw[b])

\* value is the first usable value of series, None when it has none
IsFirstUsable(value, series) ==
    \/ value = None /\ \A k \in 1..Len(series) : ~usable(series[k])
    \/ \E k \in 1..Len(series) :
          /\ usable(series[k])
          /\ \A j \in 1..(k - 1) : ~usable(series[j])
          /\ value = series[k]

\* C4: every field of a row of the table other than marcas is the first
\* non-missing, non-blank value of that field among the records of the row's
\* group in concatenated order, and is missing only when the group has none.
C4_FirstUsableWins ==
    pc = "done" =>
        \A i \in 1..Len(agg) : \A j \in 1..Len(OutCols) :
            IsFirstUsable(agg[i][OutCols[j]], column(Members(i), OutCols[j]))

\* a group whose first record has no especialidad and whose next two records
\* have different ones: the table shows the earlier of the two
C4_LaterValueIgnored ==
    /\ pc = "done"
    /\ \E i \in 1..Len(agg) :
          /\ Len(Members(i)) >= 3
          /\ IsNa(Members(i)[1].especialidad)
          /\ NotNa(Members(i)[2].especialidad) /\ NotNa(Members(i)[3].especialidad)
          /\ Members(i)[2].especialidad # Members(i)[3].especialidad
          /\ agg[i].especialidad = Members(i)[2].especialidad

RECURSIVE SumMarcas(_)
SumMarcas(rows) == IF rows = <<>> THEN 0 ELSE Head(rows).marcas + SumMarcas(Tail(rows))

\* C5: each row's marcas is the number of consolidated records of its group
\* and at least 1, every record belongs to the group of exactly one row, and
\* the marcas add up to the number of records that survived in the sheets of
\* all files.
C5_MarcasConservation ==
    pc = "done" =>
        /\ \A i \in 1..Len(agg) : agg[i].marcas = Len(Members(i)) /\ agg[i].marcas >= 1
        /\ \A a \in 1..Len(raw) :
              Cardinality({i \in 1..Len(agg) : agg[i].key = raw[a].key}) = 1
        /\ SumMarcas(agg) = Len(raw)
        /\ Len(raw) = Len(RecordsOfFiles(uploaded))

\* a table with a row of three marks and a row that stands for records
\* without identifier
C5_ThreeMarks ==
    /\ pc = "done"
    /\ Len(agg) >= 2
    /\ \E i \in 1..Len(agg) : agg[i].marcas = 3
    /\ \E i \in 1..Len(agg) : IsNa(agg[i].rut) /\ agg[i].marcas >= 1

\* C8: whatever files and sheets failed, the records collected are exactly
\* those of the sheets that did not fail of the files that opened, in input
\* order, and the log has one error line for each failure.
C8_FailureIsolation ==
    /\ raw = RecordsOfFiles(uploaded)
    /\ Len(SelectSeq(logs, IsError)) = Failures(uploaded)

\* a run whose first file did not open and whose second file had a failing
\* sheet followed by a sheet with records, which were consolidated
C8_GoodSheetAfterFailures ==
    /\ pc = "done"
    /\ Len(uploaded) = 2
    /\ ~Opens(uploaded[1])
    /\ Opens(uploaded[2])
    /\ Len(uploaded[2].sheets) = 2
    /\ SheetFails(uploaded[2].sheets[1])
    /\ SheetRecords(uploaded[2].sheets[2]) # <<>>
    /\ SumMarcas(agg) = Len(SheetRecords(uploaded[2].sheets[2]))

\* C9: the run ends in the batch-empty failure exactly when no file yielded
\* a record; then no table is built and the log is not empty; otherwise the
\* consolidation runs and the table has rows.
C9_BatchEmptyIff ==
    /\ pc = "files" => (chunks = <<>> <=> RecordsOfFiles(uploaded) = <<>>)
    /\ pc = "batch_empty" => (RecordsOfFiles(uploaded) = <<>> /\ agg = <<>> /\ logs # <<>>)
    /\ pc = "done" => (RecordsOfFiles(uploaded) # <<>> /\ agg # <<>>)

\* a run of two files that ended in the batch-empty failure although one of
\* its workbooks opened and had a sheet
C9_EmptyBatchOfTwo ==
    /\ pc = "batch_empty"
    /\ Len(uploaded) = 2
    /\ \E i \in 1..2 : Opens(uploaded[i]) /\ uploaded[i].sheets # <<>>
    /\ Len(logs) >= 2

=============================================================================
